---- MODULE Spec2Model ----
(***************************************************************************)
(* A model of examples/pennylane_skip_state_preparation.py: the target     *)
(* Bloch vector, the layered ansatz, the cost function and the             *)
(* optimization loop with its best-parameter tracking and console output.  *)
(*                                                                         *)
(* The quantum device (circuit execution by sampling) and the optimizer    *)
(* (opt.step) are external: the values they return are inputs of the       *)
(* model, drawn from small sets.                                           *)
(***************************************************************************)
EXTENDS Integers, Naturals, Sequences, FiniteSets, TLC

(***************************************************************************)
(* Program constants.                                                      *)
(***************************************************************************)
\* purity = 0.66, kept as the fraction purity_num / purity_den
purity_num == 66
purity_den == 100
nr_qubits == 3
nr_layers == 2
\* steps = 200
STEPS == 200
\* the period of the progress report: n % 10 == 9
REPORT_EVERY == 10

(***************************************************************************)
(* Bounds of the model.                                                    *)
(***************************************************************************)
\* entries of the sampled vector v range over -MaxV .. MaxV
MaxV == 2
\* loop lengths explored with every device outcome: steps in 0 .. MaxSteps
MaxSteps == 3
\* expectation values and target components of the cost function: -MaxExp .. MaxExp
MaxExp == 1
\* a second, shorter full-report run beside steps = STEPS
ShortSteps == 13

(***************************************************************************)
(* Floating-point values: a number (in fixed units) or NaN.  Comparisons   *)
(* with NaN are false and arithmetic on NaN gives NaN, as in IEEE 754.     *)
(***************************************************************************)
F(x) == [nan |-> FALSE, val |-> x]
NaN == [nan |-> TRUE, val |-> 0]
FSub(a, b) == IF a.nan \/ b.nan THEN NaN ELSE F(a.val - b.val)
FAdd(a, b) == IF a.nan \/ b.nan THEN NaN ELSE F(a.val + b.val)
FAbs(a) == IF a.nan THEN NaN ELSE F(IF a.val < 0 THEN -a.val ELSE a.val)
FLess(a, b) == ~a.nan /\ ~b.nan /\ a.val < b.val
FGeq(a, b) == ~a.nan /\ ~b.nan /\ a.val >= b.val

(***************************************************************************)
(* Exact reals of the form sgn * sqrt(num / den), with NaN and infinities, *)
(* for the normalisation of the target vector.                             *)
(***************************************************************************)
Sign(x) == IF x > 0 THEN 1 ELSE IF x < 0 THEN -1 ELSE 0
ExNaN == [kind |-> "nan", sgn |-> 0, num |-> 0, den |-> 1]
ExInf(s) == [kind |-> "inf", sgn |-> s, num |-> 0, den |-> 1]
RECURSIVE Gcd(_, _)
Gcd(a, b) == IF b = 0 THEN a ELSE Gcd(b, a % b)
\* the fraction a / b (a >= 0, b > 0) in lowest terms
Frac(a, b) == <<a \div Gcd(a, b), b \div Gcd(a, b)>>
ExNum(s, a, b) ==
    [kind |-> "num", sgn |-> IF a = 0 THEN 0 ELSE s, num |-> Frac(a, b)[1], den |-> Frac(a, b)[2]]
ExInt(x) == ExNum(Sign(x), x * x, 1)
\* np.sqrt of the rational a / b (b > 0)
np_sqrt(a, b) == IF a < 0 THEN ExNaN ELSE ExNum(1, a, b)
ExMul(x, y) ==
    IF x.kind = "nan" \/ y.kind = "nan" THEN ExNaN
    ELSE IF x.kind = "inf" \/ y.kind = "inf"
         THEN IF x.sgn * y.sgn = 0 THEN ExNaN ELSE ExInf(x.sgn * y.sgn)
    ELSE ExNum(x.sgn * y.sgn, x.num * y.num, x.den * y.den)
ExDiv(x, y) ==
    IF x.kind = "nan" \/ y.kind = "nan" THEN ExNaN
    ELSE IF y.kind = "inf" THEN (IF x.kind = "inf" THEN ExNaN ELSE ExNum(0, 0, 1))
    ELSE IF x.kind = "inf" THEN ExInf(IF y.sgn < 0 THEN -x.sgn ELSE x.sgn)
    ELSE IF y.sgn = 0 THEN (IF x.sgn = 0 THEN ExNaN ELSE ExInf(x.sgn))
    ELSE ExNum(x.sgn * y.sgn, x.num * y.den, x.den * y.num)

\* np.sum(v ** 2)
sum_sq(v) == v[1] * v[1] + v[2] * v[2] + v[3] * v[3]

\* bloch_v = np.sqrt(2 * purity - 1) * v / np.sqrt(np.sum(v ** 2))
normalize(v) ==
    [k \in 1..3 |->
        ExDiv(ExMul(np_sqrt(2 * purity_num - purity_den, purity_den), ExInt(v[k])),
              np_sqrt(sum_sq(v), 1))]

\* whether every component of a vector is a finite number
Finite(b) == \A k \in 1..3 : b[k].kind = "num"

\* the squared norm of a finite vector, as the fraction <<numerator, denominator>>
FracAdd(x, y) == Frac(x[1] * y[2] + y[1] * x[2], x[2] * y[2])
SqNorm(b) ==
    FracAdd(FracAdd(<<b[1].num, b[1].den>>, <<b[2].num, b[2].den>>), <<b[3].num, b[3].den>>)

(***************************************************************************)
(* Arrays.                                                                 *)
(***************************************************************************)
\* An array is its shape and its entries, nested one level per dimension.
\* np.zeros(shape) for a shape of one to three dimensions
np_zeros(shape) ==
    [shape |-> shape,
     data |->
        IF Len(shape) = 1 THEN [i \in 1..shape[1] |-> 0]
        ELSE IF Len(shape) = 2 THEN [i \in 1..shape[1] |-> [j \in 1..shape[2] |-> 0]]
        ELSE [i \in 1..shape[1] |-> [j \in 1..shape[2] |-> [k \in 1..shape[3] |-> 0]]]]

\* whether a is a three-dimensional array of the given shape
HasShape(a, shape) ==
    /\ a.shape = shape
    /\ Len(shape) = 3
    /\ DOMAIN a.data = 1..shape[1]
    /\ \A i \in DOMAIN a.data :
        /\ DOMAIN a.data[i] = 1..shape[2]
        /\ \A j \in DOMAIN a.data[i] : DOMAIN a.data[i][j] = 1..shape[3]

\* the declared shape of the parameter array
params_shape == <<nr_qubits, nr_layers, 3>>

\* an initial parameter array with pairwise distinct entries, shifted by c
P0(c) ==
    [shape |-> params_shape,
     data |-> [i \in 1..nr_qubits |-> [j \in 1..nr_layers |-> [k \in 1..3 |->
        c + (i - 1) * nr_layers * 3 + (j - 1) * 3 + (k - 1)]]]]

\* the array Paulis: entries are complex numbers <<re, im>>
Paulis ==
    << << << <<0, 0>>, <<1, 0>> >>, << <<1, 0>>, <<0, 0>> >> >>,
       << << <<0, 0>>, <<0, -1>> >>, << <<0, 1>>, <<0, 0>> >> >>,
       << << <<1, 0>>, <<0, 0>> >>, << <<0, 0>>, <<-1, 0>> >> >> >>

(***************************************************************************)
(* The ansatz: layer(params, j) and circuit(params, A).  Wires keep the    *)
(* source's numbering 0 .. nr_qubits - 1; array indices start at 1.        *)
(***************************************************************************)
rotation_names == <<"RX", "RY", "RZ">>

\* the g-th rotation of layer j on qubit i: qml.RX / RY / RZ(params[i, j, g], wires=i)
rotation(p, i, j, g) ==
    [op |-> rotation_names[g + 1], angle |-> p.data[i + 1][j + 1][g + 1], wires |-> <<i>>]

\* (the last two entangling gates exchanged)
cnot_wires_swapped == << <<0, 1>>, <<1, 2>>, <<0, 2>> >>

\* the wire pairs of the three entangling gates of a layer, in program order
cnot_wires == << <<0, 1>>, <<0, 2>>, <<1, 2>> >>

cnot(c) == [op |-> "CNOT", angle |-> 0, wires |-> cnot_wires[c + 1]]

\* the wire the expectation value is taken on
expval_wires == <<0>>

\* return qml.expval.Hermitian(A, wires=0)
expval(A) == [op |-> "expval.Hermitian", obs |-> A, wires |-> expval_wires]

(***************************************************************************)
(* cost_fn(params).  The device's three answers are the input r: r[c] is   *)
(* what the c-th call of circuit returns.  The result carries the          *)
(* accumulated cost and the arguments of the calls made, in order.         *)
(***************************************************************************)
\* (a term that pairs the k-th answer with the wrong component of the target)
cost_term_mispaired(r, b, k) == FAbs(FSub(r[k + 1], b[3 - k]))

\* cost += np.abs(circuit(params, A=Paulis[k]) - bloch_v[k])
cost_term(r, b, k) == FAbs(FSub(r[k + 1], b[k + 1]))

RECURSIVE cost_fn_loop(_, _, _, _, _)
cost_fn_loop(p, b, r, k, acc) ==
    IF k >= 3 THEN acc
    ELSE cost_fn_loop(p, b, r, k + 1,
            [cost |-> FAdd(acc.cost, cost_term(r, b, k)),
             calls |-> Append(acc.calls, [params |-> p, A |-> Paulis[k + 1]])])

cost_fn(p, b, r) == cost_fn_loop(p, b, r, 0, [cost |-> F(0), calls |-> <<>>])

(***************************************************************************)
(* The optimizer: opt.step(cost_fn, params) returns a new array, each      *)
(* entry of params moved by the update g the optimizer computed.           *)
(***************************************************************************)
opt_step(p, g) ==
    [shape |-> p.shape,
     data |-> [i \in DOMAIN p.data |-> [j \in DOMAIN p.data[i] |->
        [k \in DOMAIN p.data[i][j] |-> p.data[i][j][k] - g]]]]

\* (zeros of a shape without the rotation axis)
best_params_init_2d == np_zeros(<<nr_qubits, nr_layers>>)

\* best_params = np.zeros((nr_qubits, nr_layers, 3))
best_params_init == np_zeros(<<nr_qubits, nr_layers, 3>>)

\* (a comparison that also accepts an equal cost)
improved_or_equal(cur, best) == FLess(cur, best) \/ (~cur.nan /\ cur = best)

\* if current_cost < best_cost
improved(cur, best) == FLess(cur, best)

\* (a report at the start of each period instead of its end)
reports_early(i, total) == i % REPORT_EVERY = 0 \/ i = total - 1

\* if n % 10 == 9 or n == steps - 1
reports(i, total) == i % REPORT_EVERY = REPORT_EVERY - 1 \/ i = total - 1

\* (a range that runs one iteration more)
in_range_inclusive(i, total) == i <= total

\* (a range that stops one iteration early)
in_range_short(i, total) == i < total - 1

\* for n in range(steps): whether iteration i runs
in_range(i, total) == i < total

(***************************************************************************)
(* State.                                                                  *)
(***************************************************************************)
VARIABLES
    pc,              \* the script's position
    steps,           \* the number of optimization steps
    bloch_v,         \* the target, as the cost function reads it
    params,          \* the parameter array
    best_cost,
    best_params,
    current_cost,
    n,               \* the position of the loop's range iterator
    output_bloch_v,
    out,             \* the lines printed so far
    params0,         \* history: the parameter array as first constructed
    evals,           \* history: every cost_fn call of the script, [params, cost]
    opt_log,         \* history: every opt.step call, [arg, ret]
    measured,        \* history: the circuit calls that measured output_bloch_v
    v,               \* the sampled vector
    bloch_exact,     \* bloch_v in exact arithmetic
    results,         \* the device's answers to one cost_fn call
    cost_ret,        \* what that cost_fn call returned
    A_arg,           \* circuit's argument A
    tape,            \* the gates circuit has queued
    cj, ci, cg       \* circuit's position: layer, qubit, gate within the group

vars == <<pc, steps, bloch_v, params, best_cost, best_params, current_cost, n,
          output_bloch_v, out, params0, evals, opt_log, measured, v, bloch_exact,
          results, cost_ret, A_arg, tape, cj, ci, cg>>

script_vars == <<steps, best_cost, best_params, current_cost, n, output_bloch_v, out,
                 params0, evals, opt_log, measured>>
bloch_vars == <<v, bloch_exact>>
cost_vars == <<results, cost_ret>>
circuit_vars == <<A_arg, tape, cj, ci, cg>>

FVec(x, y, z) == <<F(x), F(y), F(z)>>
NaNVec == <<NaN, NaN, NaN>>

\* values the variables of the parts of the program a specification leaves out hold
IdleScript ==
    /\ steps = 0 /\ best_cost = F(0) /\ best_params = best_params_init
    /\ current_cost = F(0) /\ n = 0 /\ output_bloch_v = np_zeros(<<3>>)
    /\ out = <<>> /\ params0 = params /\ evals = <<>> /\ opt_log = <<>>
    /\ measured = <<>>
IdleBloch == v = <<1, 0, 0>> /\ bloch_exact = <<>>
IdleCost == results = FVec(0, 0, 0) /\ cost_ret = [cost |-> F(0), calls |-> <<>>]
IdleCircuit == A_arg = Paulis[1] /\ tape = <<>> /\ cj = 0 /\ ci = 0 /\ cg = 0

(***************************************************************************)
(* Inputs.                                                                 *)
(***************************************************************************)
\* the device's answers to three circuit calls, each drawn from E
Samples(E) == [1..3 -> {F(x) : x \in E}]
\* the answers explored in the optimization loop, and the optimizer's updates
LoopExpvals == 0..1
LoopUpdates == {0, 1}
\* a device without sampling noise and an optimizer with one update
QuietExpvals == {0}
QuietUpdates == {1}
\* the targets of the loop: a finite vector, and the vector of NaN
LoopTargets == {FVec(0, 0, 0), NaNVec}
\* the device's answers when the output Bloch vector is measured
LoopOutputs == {FVec(0, 0, 0), FVec(1, 0, 1)}
QuietOutputs == {FVec(0, 0, 0)}
Unbound == [shape |-> <<>>, data |-> <<>>]

(***************************************************************************)
(* The script, lines 149-174.                                              *)
(***************************************************************************)
CostLine(k, c) == [kind |-> "cost", step |-> k, cost |-> c]

\* best_cost = cost_fn(params); best_params = np.zeros(...)
InitBest(E) ==
    /\ pc = "best_cost"
    /\ \E r \in Samples(E) :
        LET c == cost_fn(params, bloch_v, r).cost IN
        /\ best_cost' = c
        /\ evals' = Append(evals, [params |-> params, cost |-> c])
    /\ best_params' = best_params_init
    /\ pc' = "report0"
    /\ UNCHANGED <<steps, bloch_v, params, current_cost, n, output_bloch_v, out,
                   params0, opt_log, measured, bloch_vars, cost_vars, circuit_vars>>

\* print("Cost after 0 steps is {:.4f}".format(cost_fn(params)))
ReportInitial(E) ==
    /\ pc = "report0"
    /\ \E r \in Samples(E) :
        LET c == cost_fn(params, bloch_v, r).cost IN
        /\ out' = Append(out, CostLine(0, c))
        /\ evals' = Append(evals, [params |-> params, cost |-> c])
    /\ pc' = "loop"
    /\ UNCHANGED <<steps, bloch_v, params, best_cost, best_params, current_cost, n,
                   output_bloch_v, params0, opt_log, measured, bloch_vars, cost_vars,
                   circuit_vars>>

\* for n in range(steps): params = opt.step(cost_fn, params)
OptStep(G) ==
    /\ pc = "loop"
    /\ in_range(n, steps)
    /\ \E g \in G :
        /\ params' = opt_step(params, g)
        /\ opt_log' = Append(opt_log, [arg |-> params, ret |-> opt_step(params, g)])
    /\ pc' = "eval"
    /\ UNCHANGED <<steps, bloch_v, best_cost, best_params, current_cost, n,
                   output_bloch_v, out, params0, evals, measured, bloch_vars, cost_vars,
                   circuit_vars>>

\* current_cost = cost_fn(params)
Evaluate(E) ==
    /\ pc = "eval"
    /\ \E r \in Samples(E) :
        LET c == cost_fn(params, bloch_v, r).cost IN
        /\ current_cost' = c
        /\ evals' = Append(evals, [params |-> params, cost |-> c])
    /\ pc' = "track"
    /\ UNCHANGED <<steps, bloch_v, params, best_cost, best_params, n, output_bloch_v,
                   out, params0, opt_log, measured, bloch_vars, cost_vars, circuit_vars>>

\* if current_cost < best_cost: best_params = params
Track ==
    /\ pc = "track"
    /\ best_params' = IF improved(current_cost, best_cost) THEN params ELSE best_params
    /\ pc' = "progress"
    /\ UNCHANGED <<steps, bloch_v, params, best_cost, current_cost, n, output_bloch_v,
                   out, params0, evals, opt_log, measured, bloch_vars, cost_vars,
                   circuit_vars>>

\* if n % 10 == 9 or n == steps - 1: print(...); then the next n
Progress ==
    /\ pc = "progress"
    /\ out' = IF reports(n, steps) THEN Append(out, CostLine(n + 1, current_cost)) ELSE out
    /\ n' = n + 1
    /\ pc' = "loop"
    /\ UNCHANGED <<steps, bloch_v, params, best_cost, best_params, current_cost,
                   output_bloch_v, params0, evals, opt_log, measured, bloch_vars,
                   cost_vars, circuit_vars>>

\* the loop is over: output_bloch_v[l] = circuit(best_params, A=Paulis[l])
Measure(R) ==
    /\ pc = "loop"
    /\ ~in_range(n, steps)
    /\ \E r \in R : output_bloch_v' = r
    /\ measured' = [l \in 1..3 |-> [params |-> best_params, A |-> Paulis[l]]]
    /\ pc' = "report"
    /\ UNCHANGED <<steps, bloch_v, params, best_cost, best_params, current_cost, n, out,
                   params0, evals, opt_log, bloch_vars, cost_vars, circuit_vars>>

\* print("Target Bloch vector = ", bloch_v)
ReportTarget ==
    /\ pc = "report"
    /\ out' = Append(out, [kind |-> "target", vec |-> bloch_v])
    /\ pc' = "report2"
    /\ UNCHANGED <<steps, bloch_v, params, best_cost, best_params, current_cost, n,
                   output_bloch_v, params0, evals, opt_log, measured, bloch_vars,
                   cost_vars, circuit_vars>>

\* print("Output Bloch vector = ", output_bloch_v)
ReportOutput ==
    /\ pc = "report2"
    /\ out' = Append(out, [kind |-> "output", vec |-> output_bloch_v])
    /\ pc' = "done"
    /\ UNCHANGED <<steps, bloch_v, params, best_cost, best_params, current_cost, n,
                   output_bloch_v, params0, evals, opt_log, measured, bloch_vars,
                   cost_vars, circuit_vars>>

ScriptInit(S, T) ==
    /\ pc = "best_cost"
    /\ steps \in S
    /\ bloch_v \in T
    /\ params = P0(0)
    /\ params0 = params
    /\ best_cost = F(0) /\ best_params = Unbound /\ current_cost = F(0)
    /\ n = 0 /\ output_bloch_v = np_zeros(<<3>>) /\ out = <<>>
    /\ evals = <<>> /\ opt_log = <<>> /\ measured = <<>>
    /\ IdleBloch /\ IdleCost /\ IdleCircuit

\* short runs, every device answer and optimizer update explored
Init == ScriptInit(0..MaxSteps, LoopTargets)

Next ==
    \/ InitBest(LoopExpvals)
    \/ ReportInitial(LoopExpvals)
    \/ OptStep(LoopUpdates)
    \/ Evaluate(LoopExpvals)
    \/ Track
    \/ Progress
    \/ Measure(LoopOutputs)
    \/ ReportTarget
    \/ ReportOutput

Spec == Init /\ [][Next]_vars

\* the script as written (steps = 200) and a shorter run: the first evaluation
\* takes every device answer, the loop runs on a device without noise
InitReport == ScriptInit({STEPS, ShortSteps}, LoopTargets)

NextReport ==
    \/ InitBest(LoopExpvals)
    \/ ReportInitial(QuietExpvals)
    \/ OptStep(QuietUpdates)
    \/ Evaluate(QuietExpvals)
    \/ Track
    \/ Progress
    \/ Measure(QuietOutputs)
    \/ ReportTarget
    \/ ReportOutput

\* the script is one sequential thread: a statement that can run does run
SpecReport == InitReport /\ [][NextReport]_vars /\ WF_vars(NextReport)

(***************************************************************************)
(* The target vector alone, lines 42-48: every sampled v within the bound. *)
(***************************************************************************)
InitBloch ==
    /\ pc = "sampled"
    /\ v \in [1..3 -> -MaxV..MaxV]
    /\ bloch_exact = <<>>
    /\ bloch_v = FVec(0, 0, 0)
    /\ params = P0(0)
    /\ IdleScript /\ IdleCost /\ IdleCircuit

Normalize ==
    /\ pc = "sampled"
    /\ bloch_exact' = normalize(v)
    /\ pc' = "normalized"
    /\ UNCHANGED <<v, bloch_v, params, script_vars, cost_vars, circuit_vars>>

NextBloch == Normalize

SpecBloch == InitBloch /\ [][NextBloch]_vars

(***************************************************************************)
(* cost_fn alone, lines 132-137: every target and every device answer      *)
(* within the bound, the target possibly NaN.                              *)
(***************************************************************************)
CostTargets == [1..3 -> {F(x) : x \in -MaxExp..MaxExp}] \cup {NaNVec}

InitCost ==
    /\ pc = "cost_call"
    /\ bloch_v \in CostTargets
    /\ results \in Samples(-MaxExp..MaxExp)
    /\ cost_ret = [cost |-> F(0), calls |-> <<>>]
    /\ params \in {P0(0), best_params_init}
    /\ IdleScript /\ IdleBloch /\ IdleCircuit

CallCostFn ==
    /\ pc = "cost_call"
    /\ cost_ret' = cost_fn(params, bloch_v, results)
    /\ pc' = "cost_done"
    /\ UNCHANGED <<bloch_v, params, results, script_vars, bloch_vars, circuit_vars>>

NextCost == CallCostFn

SpecCost == InitCost /\ [][NextCost]_vars

(***************************************************************************)
(* circuit(params, A) alone, lines 80-88 and 111-118, one gate at a time.  *)
(***************************************************************************)
InitCircuit ==
    /\ pc = "rot"
    /\ params \in {P0(0), P0(1), best_params_init}
    /\ A_arg \in {Paulis[k] : k \in 1..3}
    /\ tape = <<>>
    /\ cj = 0 /\ ci = 0 /\ cg = 0
    /\ bloch_v = FVec(0, 0, 0)
    /\ IdleScript /\ IdleBloch /\ IdleCost

\* layer: the next of qml.RX, qml.RY, qml.RZ in for i in range(nr_qubits)
Rotate ==
    /\ pc = "rot"
    /\ tape' = Append(tape, rotation(params, ci, cj, cg))
    /\ IF cg < 2
       THEN cg' = cg + 1 /\ UNCHANGED <<ci, pc>>
       ELSE /\ cg' = 0
            /\ IF ci < nr_qubits - 1
               THEN ci' = ci + 1 /\ pc' = pc
               ELSE ci' = 0 /\ pc' = "cnot"
    /\ UNCHANGED <<cj, A_arg, bloch_v, params, script_vars, bloch_vars, cost_vars>>

\* layer: the next qml.CNOT; after the last, the next j of for j in range(nr_layers)
Entangle ==
    /\ pc = "cnot"
    /\ tape' = Append(tape, cnot(cg))
    /\ IF cg < 2
       THEN cg' = cg + 1 /\ UNCHANGED <<cj, pc>>
       ELSE /\ cg' = 0
            /\ IF cj < nr_layers - 1
               THEN cj' = cj + 1 /\ pc' = "rot"
               ELSE cj' = cj /\ pc' = "expval"
    /\ UNCHANGED <<ci, A_arg, bloch_v, params, script_vars, bloch_vars, cost_vars>>

\* circuit: return qml.expval.Hermitian(A, wires=0)
Expval ==
    /\ pc = "expval"
    /\ tape' = Append(tape, expval(A_arg))
    /\ pc' = "ret"
    /\ UNCHANGED <<cj, ci, cg, A_arg, bloch_v, params, script_vars, bloch_vars, cost_vars>>

NextCircuit == Rotate \/ Entangle \/ Expval

SpecCircuit == InitCircuit /\ [][NextCircuit]_vars

(***************************************************************************)
(* Properties.                                                             *)
(***************************************************************************)
SetMax(S) == CHOOSE x \in S : \A y \in S : y <= x
AfterLoop == pc \in {"report", "report2", "done"}
\* the cost_fn call of loop step i (the script makes two calls before the loop)
StepEval(i) == evals[i + 2]
ZeroArray ==
    [shape |-> <<3, 2, 3>>,
     data |-> [i \in 1..3 |-> [j \in 1..2 |-> [k \in 1..3 |-> 0]]]]
\* the steps whose cost was strictly below the first evaluation's cost
Below == {i \in 1..(Len(evals) - 2) : FLess(StepEval(i).cost, evals[1].cost)}

\* C1: when the loop has ended (after at least one step), best_params is the
\* parameter array of a step whose cost is the minimum over all steps of the
\* loop, and the output Bloch vector was measured with it.
C1_BestIsMinimum ==
    (AfterLoop /\ steps >= 1) =>
        /\ \E i \in 1..steps :
            /\ best_params = StepEval(i).params
            /\ \A j \in 1..steps : ~FLess(StepEval(j).cost, StepEval(i).cost)
        /\ \A l \in 1..3 : measured[l].params = best_params

\* C2: with steps = 0 the loop body never runs: params is still the array first
\* constructed, the optimizer was never called, best_cost is the first
\* evaluation of cost_fn on those params, and the line "Cost after 0 steps"
\* reports an evaluation of the same params.
C2_ZeroStepsFrame ==
    (steps = 0 /\ pc \notin {"best_cost", "report0"}) =>
        /\ params = params0
        /\ opt_log = <<>>
        /\ n = 0
        /\ Len(evals) = 2
        /\ evals[1] = [params |-> params0, cost |-> best_cost]
        /\ evals[2].params = params0
        /\ out[1] = CostLine(0, evals[2].cost)

C2_Witness == steps = 0 /\ pc = "done" /\ Len(out) = 3

\* C3: params always has the declared shape (3, 2, 3), also after every
\* opt.step; so does best_params once it is bound, whether or not the loop
\* reassigned it.
C3_Shape ==
    /\ params_shape = <<3, 2, 3>>
    /\ HasShape(params, params_shape)
    /\ pc # "best_cost" => HasShape(best_params, params_shape)

C3_Witness ==
    /\ pc = "done" /\ steps = MaxSteps
    /\ params # params0
    /\ best_params = best_params_init

C4_CostNonNegative ==
    pc = "cost_done" =>
        /\ FGeq(cost_ret.cost, F(0))
        /\ cost_ret.cost = F(0) => \A k \in 1..3 : results[k] = bloch_v[k]

\* C4, for the targets without NaN: the cost is a number >= 0, and 0 only
\* when every answer equals the matching component of the target.
C4_CostNonNegativeFinite ==
    (pc = "cost_done" /\ bloch_v # NaNVec) =>
        /\ FGeq(cost_ret.cost, F(0))
        /\ cost_ret.cost = F(0) => \A k \in 1..3 : results[k] = bloch_v[k]

\* the Pauli matrices of the module docstring
sigma_x == << << <<0, 0>>, <<1, 0>> >>, << <<1, 0>>, <<0, 0>> >> >>
sigma_y == << << <<0, 0>>, <<0, -1>> >>, << <<0, 1>>, <<0, 0>> >> >>
sigma_z == << << <<1, 0>>, <<0, 0>> >>, << <<0, 0>>, <<-1, 0>> >> >>

\* C5: cost_fn(params) is the sum over i of |a_i - a'_i|, a the target and
\* a'_i the answer of the i-th circuit call; it calls circuit exactly three
\* times, with the Pauli matrices X, Y, Z in that order and the same params.
C5_CostIsSumOfDistances ==
    pc = "cost_done" =>
        /\ cost_ret.cost =
             FAdd(FAdd(FAbs(FSub(bloch_v[1], results[1])),
                       FAbs(FSub(bloch_v[2], results[2]))),
                  FAbs(FSub(bloch_v[3], results[3])))
        /\ cost_ret.calls =
             << [params |-> params, A |-> sigma_x],
                [params |-> params, A |-> sigma_y],
                [params |-> params, A |-> sigma_z] >>

\* a call whose three distances differ, so that the pairing matters
C5_Witness ==
    /\ pc = "cost_done"
    /\ ~cost_ret.cost.nan
    /\ cost_ret.cost.val = 3
    /\ bloch_v = FVec(1, 0, -1)
    /\ results = FVec(1, 1, 1)

\* C6: for every sampled v, the squared norm of bloch_v is 2 * purity - 1
\* (so the norm is at most 1), the zero vector included.
C6_FixedNorm ==
    pc = "normalized" =>
        /\ Finite(bloch_exact)
        /\ SqNorm(bloch_exact)[1] * purity_den
             = (2 * purity_num - purity_den) * SqNorm(bloch_exact)[2]
        /\ SqNorm(bloch_exact)[1] <= SqNorm(bloch_exact)[2]

\* C6, for the vectors other than zero: the squared norm is 2 * purity - 1,
\* and each component has the sign of the matching component of v.
C6_FixedNormNonzero ==
    (pc = "normalized" /\ v # <<0, 0, 0>>) =>
        /\ Finite(bloch_exact)
        /\ SqNorm(bloch_exact)[1] * purity_den
             = (2 * purity_num - purity_den) * SqNorm(bloch_exact)[2]
        /\ SqNorm(bloch_exact)[1] <= SqNorm(bloch_exact)[2]
        /\ \A k \in 1..3 : bloch_exact[k].sgn = Sign(v[k])

IsCostLine(l) == l.kind = "cost"
\* the cost lines printed so far, in order
CostLines == SelectSeq(out, IsCostLine)
\* 0, and the steps up to m that are multiples of 10 or the last step
DueSteps(m) == {0} \cup {k \in 1..m : k % 10 = 0 \/ k = steps}

\* C7: "Cost after 0 steps" is the first line, printed once and before any
\* optimizer step; after step m a cost line is printed exactly when m is a
\* multiple of 10 or m = steps, once, in increasing order (for steps = 200:
\* after 10, 20, ..., 200, 20 lines); the target and then the output Bloch
\* vector are printed only after the loop has finished.
C7_OutputOrder ==
    /\ out = <<>> => opt_log = <<>>
    /\ pc \notin {"best_cost", "report0"} =>
        /\ out[1] = CostLines[1] /\ out[1].step = 0
        /\ Len(CostLines) = Cardinality(DueSteps(n))
        /\ \A i \in 1..Len(CostLines) : CostLines[i].step \in DueSteps(n)
        /\ \A i \in 1..(Len(CostLines) - 1) : CostLines[i].step < CostLines[i + 1].step
    /\ \A i \in 1..Len(out) :
        out[i].kind # "cost" => (pc \in {"report2", "done"} /\ n = steps /\ i > Len(CostLines))
    /\ pc = "report2" => Len(out) = Len(CostLines) + 1 /\ out[Len(out)].kind = "target"
    /\ pc = "done" =>
        /\ Len(out) = Len(CostLines) + 2
        /\ out[Len(out) - 1] = [kind |-> "target", vec |-> bloch_v]
        /\ out[Len(out)] = [kind |-> "output", vec |-> output_bloch_v]
        /\ steps = 200 =>
            [i \in 1..Len(CostLines) |-> CostLines[i].step] = <<0>> \o [i \in 1..20 |-> 10 * i]

C7_Witness ==
    /\ pc = "done" /\ steps = STEPS
    /\ Len(out) = 23
    /\ out[21].step = 200

\* the gate at position q of circuit(p, A), counted from 1
ExpectedGate(p, A, q) ==
    LET j == (q - 1) \div 12
        w == (q - 1) % 12
    IN  IF q = 25 THEN [op |-> "expval.Hermitian", obs |-> A, wires |-> <<0>>]
        ELSE IF w < 9
             THEN [op |-> <<"RX", "RY", "RZ">>[(w % 3) + 1],
                   angle |-> p.data[(w \div 3) + 1][j + 1][(w % 3) + 1],
                   wires |-> <<w \div 3>>]
             ELSE [op |-> "CNOT", angle |-> 0,
                   wires |-> << <<0, 1>>, <<0, 2>>, <<1, 2>> >>[w - 8]]

\* C8: circuit applies the layers j = 0, 1 in order; each layer applies, for
\* qubit i = 0, 1, 2 in order, RX, RY, RZ on wire i with angles
\* params[i, j, 0..2], then CNOTs on (0, 1), (0, 2), (1, 2), which touch every
\* qubit; every entry of params is the angle of exactly one rotation; the
\* expectation of A is taken on wire 0 only, last.
C8_GateSequence ==
    /\ \A q \in 1..Len(tape) : tape[q] = ExpectedGate(params, A_arg, q)
    /\ pc = "ret" =>
        /\ Len(tape) = 25
        /\ \A i \in 1..3, j \in 1..2, k \in 1..3 :
            Cardinality({q \in 1..24 :
                /\ tape[q].op = <<"RX", "RY", "RZ">>[k]
                /\ tape[q].wires = <<i - 1>>
                /\ (q - 1) \div 12 = j - 1
                /\ tape[q].angle = params.data[i][j][k]}) = 1
        /\ Cardinality({q \in 1..24 : tape[q].op \in {"RX", "RY", "RZ"}}) = 18
        /\ \A j \in 0..1 :
            UNION {{tape[q].wires[1], tape[q].wires[2]} : q \in (12 * j + 10)..(12 * j + 12)}
                = {0, 1, 2}
        /\ \A q \in 1..25 : tape[q].op = "expval.Hermitian" <=> q = 25

C8_Witness ==
    /\ pc = "ret"
    /\ params = P0(1)
    /\ A_arg = sigma_y
    /\ tape[24] = [op |-> "CNOT", angle |-> 0, wires |-> <<1, 2>>]
    /\ tape[13] = [op |-> "RX", angle |-> 4, wires |-> <<0>>]

\* what holds of the loop at every moment
C9_LoopInvariant ==
    /\ n <= steps
    /\ Len(opt_log) = (IF pc \in {"eval", "track", "progress"} THEN n + 1 ELSE n)
    /\ pc \notin {"best_cost", "report0"} =>
        Len(evals) - 2 = (IF pc \in {"track", "progress"} THEN n + 1 ELSE n)
    /\ \A i \in 1..Len(opt_log) :
        /\ opt_log[i].arg = (IF i = 1 THEN params0 ELSE opt_log[i - 1].ret)
        /\ i + 2 <= Len(evals) => evals[i + 2].params = opt_log[i].ret
    /\ params = (IF opt_log = <<>> THEN params0 ELSE opt_log[Len(opt_log)].ret)
    /\ AfterLoop => (n = steps /\ Len(opt_log) = steps /\ Len(evals) = steps + 2)

\* C9: the loop performs exactly `steps` iterations, each one opt.step
\* rewrite of params followed by one cost_fn evaluation of the new params,
\* each step starting from the previous step's result; and the script
\* reaches the end of the final report.
C9_RunsStepsThenEnds == [](C9_LoopInvariant) /\ <>(pc = "done")

C9_Witness ==
    /\ pc = "done" /\ steps = STEPS
    /\ Len(opt_log) = 200
    /\ params = opt_step(params0, 200)

====
